---- MODULE Spec2Model ----
(***************************************************************************)
(* ClaudeOrchestrator (src/scripts/claude-orchestrator.py): the workflow   *)
(* runner execute_workflow, the invoker run_claude_code, the parallel      *)
(* fan-out run_parallel_tasks and the workflow store create_workflow.      *)
(***************************************************************************)
EXTENDS Naturals, Integers, Sequences, FiniteSets, TLC

VARIABLES
    workflow_history,  \* self.workflow_history: the entries appended by run_claude_code
    log,               \* the ERROR-level lines written by log() and the lines of create_workflow, in order
    files,             \* the workflows/ directory: key -> document written by create_workflow
    workflow,          \* the argument of the outermost execute_workflow call
    stack,             \* the activations of execute_workflow, outermost first
    threads,           \* the tasks of the parallel step being gathered, by position
    results,           \* the local `results` of the last parallel step (line 183)
    pc,                \* "idle", "running", "gather" (inside asyncio.run) or "done"
    result,            \* what the outermost execute_workflow call ended with
    started,           \* the paths of the loop iterations begun (line 162)
    invoked,           \* the subprocess.run calls made: path and how each ended
    returned,          \* the return values of the execute_workflow activations
    lifetime           \* of the orchestrator: the calls made on it, the subprocesses that exited 0

vars == <<workflow_history, log, files, workflow, stack, threads, results, pc,
          result, started, invoked, returned, lifetime>>

(***************************************************************************)
(* Bounds of the model.                                                    *)
(***************************************************************************)
MaxSteps == 3      \* steps of a workflow made of Invoke and Wait steps
MaxTasks == 2      \* tasks of a Parallel step
MaxNested == 2     \* steps of a Conditional step's nested sequence
MaxDepth == 2      \* Conditional steps nested in one another

SeqFromTo(S, lo, hi) == UNION {[1..k -> S] : k \in lo..hi}

Last(s) == s[Len(s)]
Front(s) == SubSeq(s, 1, Len(s) - 1)

(***************************************************************************)
(* Python values.  A string and an Enum member are different objects: only *)
(* the member has a .value.  None and a str are the two results of         *)
(* run_claude_code.                                                        *)
(***************************************************************************)
Str(v) == [kind |-> "str", v |-> v]
Member(v) == [kind |-> "enum", v |-> v]
Absent == [kind |-> "absent", v |-> ""]

None == [none |-> TRUE, text |-> <<>>]
Text(t) == [none |-> FALSE, text |-> t]

\* Python truth of an Optional[str]: None and "" are both falsy.
Truthy(r) == ~r.none /\ r.text # <<>>

ClaudeToolValues ==
    {"Task", "Bash", "Edit", "Write", "Read", "WebFetch", "WebSearch",
     "Batch", "Glob", "Grep", "LS"}

ThinkLevelValues ==
    {"", "think", "think hard", "think harder", "ultrathink", "megathink"}

NORMAL == Member("")

\* Enum lookup by value, ClaudeTool(x) and ThinkLevel(x): a member is returned
\* as it is, a string that is a value gives its member, anything else raises
\* ValueError.
LookupRaises(values, x) == x.kind = "str" /\ x.v \notin values
Lookup(x) == Member(x.v)

\* Mutant: log(message) without the level, which then defaults to "INFO".
LoggedAtDefaultLevel(msg, arg) == [level |-> "INFO", msg |-> msg, arg |-> arg]

\* self.log(message, "ERROR"); the lines of other levels are not kept.
ERROR(msg, arg) == [level |-> "ERROR", msg |-> msg, arg |-> arg]

\* log(message), line 154: the line create_workflow writes.
INFO(msg, arg) == [level |-> "INFO", msg |-> msg, arg |-> arg]

(***************************************************************************)
(* run_claude_code.                                                        *)
(***************************************************************************)
\* Lines 65-66: the think level is prefixed onto the prompt.
Prefixed(prompt, think_level) ==
    IF think_level # NORMAL THEN <<think_level.v>> \o prompt ELSE prompt

\* Lines 65-73, outside the try block: .value is read of the think level when
\* it is not NORMAL and of every tool; a plain string has none.
PreludeRaises(tools, think_level) ==
    \/ think_level # NORMAL /\ think_level.kind # "enum"
    \/ \E k \in 1..Len(tools) : tools[k].kind # "enum"

\* How subprocess.run can end: exit code 0 with some or no output, a non-zero
\* exit code, TimeoutExpired (only with a timeout), or an OSError at launch.
Outcomes(timeout) ==
    {"ok", "ok_empty", "nonzero", "launch"}
        \cup (IF timeout # <<>> THEN {"timeout"} ELSE {})

Failure == {"nonzero", "timeout", "launch"}

\* The text the external tool prints for a prompt, when it prints any.
Stdout(prompt) == <<"out">> \o prompt

HistoryEntry(prompt, tools, think_level) ==
    [type |-> "claude_code",
     prompt |-> prompt,
     tools |-> [k \in 1..Len(tools) |-> tools[k].v],
     think_level |-> think_level.v,
     success |-> TRUE]

\* Lines 80-110: the try block, from history h and log l.
Invocation(h, l, prompt, tools, think_level, outcome) ==
    LET p == Prefixed(prompt, think_level) IN
    CASE outcome = "ok" ->
           [history |-> Append(h, HistoryEntry(p, tools, think_level)),
            log |-> l, result |-> Text(Stdout(p)), exc |-> ""]
      [] outcome = "ok_empty" ->
           [history |-> Append(h, HistoryEntry(p, tools, think_level)),
            log |-> l, result |-> Text(<<>>), exc |-> ""]
      [] outcome = "nonzero" ->
           [history |-> h, log |-> Append(l, ERROR("Error", 0)),
            result |-> None, exc |-> ""]
      [] outcome = "timeout" ->
           [history |-> h, log |-> Append(l, ERROR("Command timed out", 0)),
            result |-> None, exc |-> ""]
      [] OTHER ->
           [history |-> h, log |-> Append(l, ERROR("Exception", 0)),
            result |-> None, exc |-> ""]

\* Mutant: the history entry is appended before the return code is looked at.
RunClaudeCodeRecordsFailures(h, l, prompt, tools, think_level, outcome) ==
    LET r == Invocation(h, l, prompt, tools, think_level, outcome) IN
    IF outcome = "nonzero"
    THEN [r EXCEPT !.history =
             Append(h, HistoryEntry(Prefixed(prompt, think_level), tools, think_level))]
    ELSE r

\* Mutant: no `except Exception`, an OSError of the launch leaves the call.
RunClaudeCodeLaunchRaises(h, l, prompt, tools, think_level, outcome) ==
    LET r == Invocation(h, l, prompt, tools, think_level, outcome) IN
    IF outcome = "launch" THEN [r EXCEPT !.log = l, !.exc = "OSError"] ELSE r

\* The whole of run_claude_code.
RunClaudeCode(h, l, prompt, tools, think_level, outcome) ==
    IF PreludeRaises(tools, think_level)
    THEN [history |-> h, log |-> l, result |-> None, exc |-> "AttributeError"]
    ELSE Invocation(h, l, prompt, tools, think_level, outcome)

(***************************************************************************)
(* Workflow definitions: the dicts execute_workflow reads.                 *)
(***************************************************************************)
ReqFlags == {"absent", "True", "False"}

\* Mutant: step.get("required", False), a missing flag read as optional.
RequiredDefaultsToFalse(step) == step.required = "True"

\* Mutant: the flag is not read, every step is required.
RequiredIgnoresFlag(step) == TRUE

\* step.get("required", True)
Required(step) == IF step.required = "absent" THEN TRUE ELSE step.required = "True"

Task(required, tools, think_level, timeout) ==
    [prompt |-> <<>>, tools |-> tools, think_level |-> think_level,
     timeout |-> timeout, required |-> required]

Invoke(t) ==
    [type |-> "claude_code", prompt |-> t.prompt, tools |-> t.tools,
     think_level |-> t.think_level, timeout |-> t.timeout, required |-> t.required]

Parallel(tasks) == [type |-> "parallel", tasks |-> tasks]
Wait(seconds) == [type |-> "wait", seconds |-> seconds]
Conditional(condition, steps) ==
    [type |-> "conditional", condition |-> condition, steps |-> steps]

Plain(required) == Task(required, <<>>, Absent, <<30>>)

Digits == <<"1", "2", "3", "4", "5", "6", "7", "8", "9">>
PromptAt(path) == <<"do">> \o [k \in 1..Len(path) |-> Digits[path[k]]]

\* Every prompt names the position of its step, so that a history entry tells
\* which invocation wrote it.
RECURSIVE Label(_, _)
Label(steps, prefix) ==
    [k \in 1..Len(steps) |->
        LET s == steps[k]
            p == prefix \o <<k>>
        IN CASE s.type = "claude_code" -> [s EXCEPT !.prompt = PromptAt(p)]
             [] s.type = "parallel" ->
                  [s EXCEPT !.tasks = [j \in 1..Len(s.tasks) |->
                      [s.tasks[j] EXCEPT !.prompt = PromptAt(p \o <<j>>)]]]
             [] s.type = "conditional" -> [s EXCEPT !.steps = Label(s.steps, p)]
             [] OTHER -> s]

SimpleSteps == {Invoke(Plain(r)) : r \in ReqFlags} \cup {Wait(1)}

SeqWorkflows == SeqFromTo(SimpleSteps, 1, MaxSteps)

Tails == {<<>>, <<Invoke(Plain("absent"))>>}

ParTasks ==
    {Plain(r) : r \in ReqFlags} \cup {Task("absent", <<Str("Read")>>, Absent, <<>>)}

ParWorkflows ==
    {<<Parallel(ts)>> \o tail : ts \in SeqFromTo(ParTasks, 0, MaxTasks), tail \in Tails}

\* step.get("condition"): no condition, or the text of an expression.
Conditions == {"absent", "True", "False"}

RECURSIVE Nested(_)
Nested(d) ==
    IF d = 0 THEN SeqFromTo(SimpleSteps, 0, MaxNested)
    ELSE {<<Conditional(c, ns)>> \o tail :
              c \in Conditions, ns \in Nested(d - 1), tail \in Tails}

CondWorkflows ==
    UNION {Nested(d) : d \in 1..MaxDepth}
        \cup {<<Conditional("undefined_name", <<Invoke(Plain("absent"))>>)>>}

ToolLists == {<<>>, <<Str("Read")>>, <<Str("READ")>>, <<Member("Read")>>}
ThinkLevels == {Absent, Str("think"), Str("deep"), Member("think")}

VariantTasks ==
    {Task(r, tl, th, to) :
        r \in {"absent", "False"}, tl \in ToolLists, th \in ThinkLevels,
        to \in {<<>>, <<30>>}}

VariantWorkflows ==
    {<<Invoke(t)>> : t \in VariantTasks} \cup {<<Parallel(<<t>>)>> : t \in VariantTasks}

Workflows ==
    {[name |-> <<"w">>, steps |-> Label(w, <<>>)] :
        w \in SeqWorkflows \cup ParWorkflows \cup CondWorkflows \cup VariantWorkflows}

RECURSIVE StepAt(_, _)
\* The step, or the parallel task, at a path of a step sequence.
StepAt(steps, path) ==
    LET s == steps[path[1]] IN
    IF Len(path) = 1 THEN s
    ELSE IF s.type = "conditional" THEN StepAt(s.steps, Tail(path))
    ELSE s.tasks[path[2]]

(***************************************************************************)
(* execute_workflow.                                                       *)
(***************************************************************************)
Top == stack[Len(stack)]
AtStep == pc = "running" /\ Top.i <= Len(Top.steps)
CurStep == Top.steps[Top.i]
CurPath == Top.path \o <<Top.i>>

Frame(steps, path) == [steps |-> steps, i |-> 1, path |-> path]

\* The next iteration of the for loop of line 162.
NextIteration(stk) == [stk EXCEPT ![Len(stk)].i = @ + 1]

Continue ==
    /\ stack' = NextIteration(stack)
    /\ pc' = "running"
    /\ UNCHANGED <<result, returned>>

\* Line 206: the caller of a nested execute_workflow drops what it returns and
\* goes on with its own loop.
AfterNested(stk, val) == NextIteration(stk)

\* `return val` in the activation on top of the stack.
Return(val) ==
    /\ returned' = returned \cup {[path |-> Top.path, val |-> val]}
    /\ IF Len(stack) = 1
       THEN /\ stack' = <<>>
            /\ pc' = "done"
            /\ result' = IF val THEN "True" ELSE "False"
       ELSE /\ stack' = AfterNested(Front(stack), val)
            /\ pc' = "running"
            /\ UNCHANGED result

\* An exception nothing catches ends every activation.
Raise(exc) ==
    /\ stack' = <<>>
    /\ pc' = "done"
    /\ result' = exc
    /\ UNCHANGED returned

\* One more call made on the orchestrator; one more subprocess.run call that
\* ended, counted when its exit code was 0 (line 89).
Called(l) == [l EXCEPT !.calls = @ + 1]
Counted(l, outcome) ==
    [l EXCEPT !.completed = IF outcome \in Failure THEN @ ELSE @ + 1]

Init ==
    /\ workflow_history = <<>>
    /\ log = <<>>
    /\ files = <<>>
    /\ workflow = [name |-> <<>>, steps |-> <<>>]
    /\ stack = <<>>
    /\ threads = <<>>
    /\ results = <<>>
    /\ pc = "idle"
    /\ result = "none"
    /\ started = {}
    /\ invoked = {}
    /\ returned = {}
    /\ lifetime = [calls |-> 0, completed |-> 0]

\* Lines 157-160: a call of execute_workflow on a fresh orchestrator.
ExecuteWorkflow ==
    /\ pc = "idle"
    /\ \E w \in Workflows :
        /\ workflow' = w
        /\ stack' = <<Frame(w.steps, <<>>)>>
    /\ pc' = "running"
    /\ lifetime' = Called(lifetime)
    /\ UNCHANGED <<workflow_history, log, files, threads, results, result,
                   started, invoked, returned>>

\* Lines 168-178: a claude_code step.
InvokeStep ==
    /\ AtStep
    /\ CurStep.type = "claude_code"
    /\ started' = started \cup {CurPath}
    /\ UNCHANGED <<files, workflow, threads, results>>
    /\ LET step == CurStep
           think == IF step.think_level = Absent THEN Str("") ELSE step.think_level
       IN
       IF \/ \E k \in 1..Len(step.tools) : LookupRaises(ClaudeToolValues, step.tools[k])
          \/ LookupRaises(ThinkLevelValues, think)
       THEN /\ Raise("ValueError")
            /\ UNCHANGED <<workflow_history, log, invoked, lifetime>>
       ELSE \E o \in Outcomes(step.timeout) :
            LET r == RunClaudeCode(workflow_history, log, step.prompt,
                                   [k \in 1..Len(step.tools) |-> Lookup(step.tools[k])],
                                   Lookup(think), o)
            IN /\ invoked' = invoked \cup {[path |-> CurPath, outcome |-> o]}
               /\ lifetime' = Counted(lifetime, o)
               /\ workflow_history' = r.history
               /\ IF r.exc # ""
                  THEN log' = r.log /\ Raise(r.exc)
                  ELSE IF ~Truthy(r.result) /\ Required(step)
                  THEN /\ log' = Append(r.log, ERROR("Required step failed", 0))
                       /\ Return(FALSE)
                  ELSE /\ log' = r.log
                       /\ Continue

\* Lines 191-195: a wait step.
WaitStep ==
    /\ AtStep
    /\ CurStep.type = "wait"
    /\ started' = started \cup {CurPath}
    /\ IF CurStep.seconds < 0 THEN Raise("ValueError") ELSE Continue
    /\ UNCHANGED <<workflow_history, log, files, workflow, threads, results, invoked,
                   lifetime>>

\* eval(condition), line 200.
EvalRaises(condition) == condition \notin {"True", "False"}
\* Mutant: `if condition:`, the text taken for its value.
ConditionTruthy(condition) == TRUE

Eval(condition) == condition = "True"

\* Lines 197-206: a conditional step.
ConditionalStep ==
    /\ AtStep
    /\ CurStep.type = "conditional"
    /\ started' = started \cup {CurPath}
    /\ LET condition == CurStep.condition IN
       IF condition = "absent" THEN Continue
       ELSE IF EvalRaises(condition) THEN Raise("NameError")
       ELSE IF Eval(condition)
       THEN /\ stack' = Append(stack, Frame(CurStep.steps, CurPath))
            /\ pc' = "running"
            /\ UNCHANGED <<result, returned>>
       ELSE Continue
    /\ UNCHANGED <<workflow_history, log, files, workflow, threads, results, invoked,
                   lifetime>>

\* Lines 208-209: the loop is over.
WorkflowCompleted ==
    /\ pc = "running"
    /\ Top.i > Len(Top.steps)
    /\ Return(TRUE)
    /\ UNCHANGED <<workflow_history, log, files, workflow, threads, results,
                   started, invoked, lifetime>>

(***************************************************************************)
(* A parallel step: run_parallel_tasks under asyncio.run.                  *)
(***************************************************************************)
\* Lines 180-183 and 127-128: every task is handed to a thread.
ParallelStep ==
    /\ AtStep
    /\ CurStep.type = "parallel"
    /\ started' = started \cup {CurPath}
    /\ threads' = [j \in 1..Len(CurStep.tasks) |-> [st |-> "pending", result |-> None]]
    /\ results' = <<>>
    /\ pc' = "gather"
    /\ UNCHANGED <<workflow_history, log, files, workflow, stack, result,
                   invoked, returned, lifetime>>

\* task.get("think_level", ThinkLevel.NORMAL), line 123.
TaskThink(task) == IF task.think_level = Absent THEN NORMAL ELSE task.think_level

\* Lines 62-78 in the thread of task j: up to the launch of the subprocess.
TaskStart(j) ==
    /\ pc = "gather"
    /\ threads[j].st = "pending"
    /\ threads' = [threads EXCEPT ![j].st =
                      IF PreludeRaises(CurStep.tasks[j].tools, TaskThink(CurStep.tasks[j]))
                      THEN "raised" ELSE "running"]
    /\ UNCHANGED <<workflow_history, log, files, workflow, stack, results, pc,
                   result, started, invoked, returned, lifetime>>

\* Lines 80-110 in the thread of task j: the subprocess ends.
TaskFinish(j) ==
    /\ pc = "gather"
    /\ threads[j].st = "running"
    /\ LET task == CurStep.tasks[j] IN
       \E o \in Outcomes(task.timeout) :
        LET r == Invocation(workflow_history, log, task.prompt, task.tools,
                            TaskThink(task), o)
        IN /\ workflow_history' = r.history
           /\ log' = r.log
           /\ threads' = [threads EXCEPT ![j] =
                            [st |-> IF r.exc # "" THEN "raised" ELSE "done",
                             result |-> r.result]]
           /\ invoked' = invoked \cup {[path |-> CurPath \o <<j>>, outcome |-> o]}
           /\ lifetime' = Counted(lifetime, o)
    /\ UNCHANGED <<files, workflow, stack, results, pc, result, started, returned>>

\* What gather returns, line 128: the tasks' results by position.
Gathered(ths) == [j \in 1..Len(ths) |-> ths[j].result]

\* Lines 186-189: the first task that is required and whose result is falsy.
FailedRequired(tasks, res) ==
    {j \in 1..Len(tasks) : j <= Len(res) /\ ~Truthy(res[j]) /\ Required(tasks[j])}

Min(S) == CHOOSE x \in S : \A y \in S : x <= y

\* Lines 128-130 and 183-189: asyncio.run ends once every thread has ended;
\* an exception of a task leaves execute_workflow, else the results are
\* looked at in order.
\* asyncio.wait(..., return_when=FIRST_COMPLETED) in the place of gather.
FirstCompleted(ths) == \E j \in 1..Len(ths) : ths[j].st \in {"done", "raised"}

\* `await asyncio.gather(...)` under asyncio.run, lines 128 and 183: the
\* caller is resumed when every task has ended.
Awaited(ths) == \A j \in 1..Len(ths) : ths[j].st \in {"done", "raised"}

Gather ==
    /\ pc = "gather"
    /\ Awaited(threads)
    /\ threads' = <<>>
    /\ IF \E j \in 1..Len(threads) : threads[j].st = "raised"
       THEN /\ Raise("AttributeError")
            /\ UNCHANGED <<log, results>>
       ELSE LET res == Gathered(threads)
                bad == FailedRequired(CurStep.tasks, res)
            IN /\ results' = res
               /\ IF bad # {}
                  THEN /\ log' = Append(log, ERROR("Required parallel task failed", Min(bad)))
                       /\ Return(FALSE)
                  ELSE /\ UNCHANGED log
                       /\ Continue
    /\ UNCHANGED <<workflow_history, files, workflow, started, invoked, lifetime>>

(***************************************************************************)
(* create_workflow.                                                        *)
(***************************************************************************)
MaxName == 2       \* characters of a workflow name
MaxCreates == 2    \* calls of create_workflow

NameChars == {"A", "a", " "}

\* str.lower() and str.replace(' ', '-') on one character.
Lower(c) == IF c = "A" THEN "a" ELSE c
ReplaceSpace(c) == IF c = " " THEN "-" ELSE c

\* Mutant: the key is the name without lower().
WorkflowFileKeepsCase(name) ==
    <<"workflows/">> \o [k \in 1..Len(name) |-> ReplaceSpace(name[k])]
        \o <<".json">>

\* Line 148: the path of the file of a workflow name.
WorkflowFile(name) ==
    <<"workflows/">> \o [k \in 1..Len(name) |-> ReplaceSpace(Lower(name[k]))]
        \o <<".json">>

\* Step sequences handed to create_workflow: none, an Invoke step with an empty
\* prompt, a negative wait, a Conditional step with nothing nested, and a
\* sequence with nothing wrong.
Definitions ==
    {<<>>,
     <<Invoke(Plain("absent"))>>,        \* its prompt is the empty text
     <<Wait(0 - 1)>>,
     <<Conditional("True", <<>>)>>,
     Label(<<Invoke(Plain("absent")), Wait(1)>>, <<>>)}

\* The calls of create_workflow: every name with the sequence that has nothing
\* wrong, and every sequence under the name "a" and under the empty name.
Requests ==
    {[name |-> name, steps |-> Label(<<Invoke(Plain("absent")), Wait(1)>>, <<>>)] :
        name \in SeqFromTo(NameChars, 0, MaxName)}
    \cup {[name |-> name, steps |-> steps] :
            name \in {<<>>, <<"a">>}, steps \in Definitions}

\* Lines 132-155: the document is built and written, whatever it holds; a file
\* that exists is overwritten, and the creation is logged.
CreateWorkflow ==
    /\ pc = "idle"
    /\ Len(log) < MaxCreates
    /\ \E req \in Requests :
        LET doc == [name |-> req.name, description |-> <<"d">>, steps |-> req.steps]
            file == WorkflowFile(req.name)
        IN /\ files' = [f \in DOMAIN files \cup {file} |->
                           IF f = file THEN doc ELSE files[f]]
           /\ log' = Append(log, INFO("Created workflow", req.name))
    /\ UNCHANGED <<workflow_history, workflow, stack, threads, results, pc,
                   result, started, invoked, returned, lifetime>>

NextStore == CreateWorkflow

SpecStore == Init /\ [][NextStore]_vars

Next ==
    \/ ExecuteWorkflow
    \/ InvokeStep
    \/ WaitStep
    \/ ConditionalStep
    \/ WorkflowCompleted
    \/ ParallelStep
    \/ \E j \in 1..Len(threads) : TaskStart(j)
    \/ \E j \in 1..Len(threads) : TaskFinish(j)
    \/ Gather

Spec == Init /\ [][Next]_vars

(***************************************************************************)
(* Vocabulary of the properties.                                           *)
(***************************************************************************)
\* A path of a step of a workflow or of a nested sequence, not of a task.
IsStepPath(path) ==
    Len(path) = 1 \/ StepAt(workflow.steps, Front(path)).type = "conditional"

\* The step sequence a step path belongs to.
SequenceOf(path) ==
    IF Len(path) = 1 THEN workflow.steps
    ELSE StepAt(workflow.steps, Front(path)).steps

\* Two paths of the same step sequence.
Siblings(p, q) == Len(p) = Len(q) /\ Front(p) = Front(q)

\* The history entry was written by the invocation at the path: its prompt
\* ends with the prompt of that step or task.
WrittenBy(entry, path) ==
    LET n == Len(PromptAt(path))
        m == Len(entry.prompt)
    IN m >= n /\ SubSeq(entry.prompt, m - n + 1, m) = PromptAt(path)

EntriesOf(path) ==
    {k \in 1..Len(workflow_history) : WrittenBy(workflow_history[k], path)}

\* The activation of execute_workflow on the sequence at a frame path is over
\* and returned val.
Returned(path, val) == [path |-> path, val |-> val] \in returned

(***************************************************************************)
(* C1.  A required Invoke step (required true, or no flag) whose           *)
(* invocation fails makes its activation of execute_workflow return False, *)
(* and no step behind it in the same sequence is ever started; for a step  *)
(* of the workflow itself the run is over with False.                      *)
(***************************************************************************)
C1_RequiredFailureAborts ==
    \A e \in invoked :
        (/\ IsStepPath(e.path)
         /\ e.outcome \in Failure
         /\ StepAt(workflow.steps, e.path).required # "False")
        => /\ Returned(Front(e.path), FALSE)
           /\ ~Returned(Front(e.path), TRUE)
           /\ Len(e.path) = 1 => (pc = "done" /\ result = "False")
           /\ \A q \in started : Siblings(q, e.path) => Last(q) <= Last(e.path)
           /\ \A q \in started :
                 \A n \in 1..Len(q) :
                    Siblings(SubSeq(q, 1, n), e.path) => q[n] <= Last(e.path)

\* A required Invoke step without a flag has failed, a step stands behind it
\* in its sequence, and the run is over.
C1_Witness ==
    /\ pc = "done"
    /\ \E e \in invoked :
        /\ IsStepPath(e.path)
        /\ e.outcome \in Failure
        /\ StepAt(workflow.steps, e.path).required = "absent"
        /\ Last(e.path) < Len(SequenceOf(e.path))
        /\ Len(e.path) > 1

(***************************************************************************)
(* C2.  An Invoke step with required false whose invocation fails does not *)
(* end its activation: the activation goes on behind it (it is still at a  *)
(* later position, or it started a later step, or it returned True); the   *)
(* failed step has no history entry; and every later step of the sequence  *)
(* whose invocation exits with code 0 has exactly one.                     *)
(***************************************************************************)
C2_OptionalFailureContinues ==
    \A e \in invoked :
        (/\ IsStepPath(e.path)
         /\ e.outcome \in Failure
         /\ StepAt(workflow.steps, e.path).required = "False")
        => /\ EntriesOf(e.path) = {}
           /\ \/ \E k \in 1..Len(stack) :
                    stack[k].path = Front(e.path) /\ stack[k].i > Last(e.path)
              \/ \E q \in started : Siblings(q, e.path) /\ Last(q) > Last(e.path)
              \/ Returned(Front(e.path), TRUE)
           /\ \A f \in invoked :
                 (/\ Siblings(f.path, e.path)
                  /\ Last(f.path) > Last(e.path)
                  /\ f.outcome \in {"ok", "ok_empty"})
                 => Cardinality(EntriesOf(f.path)) = 1

\* An optional Invoke step has failed and a later step of the same sequence,
\* which printed some output, has its entry in the history.
C2_Witness ==
    \E e \in invoked, f \in invoked :
        /\ IsStepPath(e.path)
        /\ e.outcome \in Failure
        /\ StepAt(workflow.steps, e.path).required = "False"
        /\ Siblings(f.path, e.path)
        /\ Last(f.path) > Last(e.path)
        /\ f.outcome = "ok"
        /\ EntriesOf(f.path) # {}

(***************************************************************************)
(* C3.  When the nested sequence of a Conditional step returns False, the  *)
(* enclosing activation returns False too and starts no step behind the    *)
(* Conditional step.                                                       *)
(***************************************************************************)
C3_NestedAbortPropagates ==
    \A r \in returned :
        (r.path # <<>> /\ ~r.val)
        => /\ Returned(Front(r.path), FALSE)
           /\ \A q \in started : Siblings(q, r.path) => Last(q) <= Last(r.path)

(***************************************************************************)
(* C4.  While a task of the Parallel step being gathered has not ended,    *)
(* the history holds no entry written by a task of that step.              *)
(***************************************************************************)
C4_NoHistoryWriteDuringFanOut ==
    (/\ pc = "gather"
     /\ \E j \in 1..Len(threads) : threads[j].st \in {"pending", "running"})
    => \A j \in 1..Len(threads) : EntriesOf(CurPath \o <<j>>) = {}

(***************************************************************************)
(* C5.  Once a Parallel step's run_parallel_tasks call is over, it has     *)
(* returned one result per task, result j being what the invocation of     *)
(* task j gave, and every task was invoked.                                *)
(***************************************************************************)
IsOver(p) == ~(pc = "gather" /\ CurPath = p)

OutcomeResult(task, outcome) ==
    CASE outcome = "ok" -> Text(Stdout(Prefixed(task.prompt, TaskThink(task))))
      [] outcome = "ok_empty" -> Text(<<>>)
      [] OTHER -> None

C5_FanInReturnsAllResults ==
    \A p \in started :
        (StepAt(workflow.steps, p).type = "parallel" /\ IsOver(p))
        => LET tasks == StepAt(workflow.steps, p).tasks IN
           /\ Len(results) = Len(tasks)
           /\ \A j \in 1..Len(tasks) :
                 \E e \in invoked :
                    /\ e.path = p \o <<j>>
                    /\ results[j] = OutcomeResult(tasks[j], e.outcome)

(***************************************************************************)
(* C6.  A Parallel step that is over ended its activation with False if    *)
(* and only if one of its tasks that is required (flag true or missing)    *)
(* failed; otherwise the activation went on behind the step.               *)
(***************************************************************************)
AbortedAt(p) ==
    /\ Returned(Front(p), FALSE)
    /\ \A q \in started : Siblings(q, p) => Last(q) <= Last(p)

WentOnBehind(p) ==
    \/ \E k \in 1..Len(stack) : stack[k].path = Front(p) /\ stack[k].i > Last(p)
    \/ \E q \in started : Siblings(q, p) /\ Last(q) > Last(p)
    \/ Returned(Front(p), TRUE)

C6_ParallelFailsIffRequiredTaskFailed ==
    \A p \in started :
        (StepAt(workflow.steps, p).type = "parallel" /\ IsOver(p))
        => LET tasks == StepAt(workflow.steps, p).tasks
               requiredFailed ==
                   \E e \in invoked :
                      /\ Front(e.path) = p
                      /\ e.outcome \in Failure
                      /\ tasks[Last(e.path)].required # "False"
           IN /\ AbortedAt(p) <=> requiredFailed
              /\ ~requiredFailed => WentOnBehind(p)

(***************************************************************************)
(* C7.  Every document in the workflows/ directory is a valid definition:  *)
(* a name, at least one step, an instruction in every Invoke step, no      *)
(* negative duration in a Wait step, a nested step in every Conditional.   *)
(***************************************************************************)
ValidStep(s) ==
    /\ s.type = "claude_code" => s.prompt # <<>>
    /\ s.type = "wait" => s.seconds >= 0
    /\ s.type = "conditional" => s.steps # <<>>

C7_OnlyValidDefinitionsPersisted ==
    \A f \in DOMAIN files :
        /\ files[f].name # <<>>
        /\ files[f].steps # <<>>
        /\ \A k \in 1..Len(files[f].steps) : ValidStep(files[f].steps[k])

(***************************************************************************)
(* C8.  The run of [Invoke(required) that exits 0, Wait(1),                *)
(* Invoke(optional) that fails] from an empty history.                     *)
(***************************************************************************)
SmokeTest == Label(<<Invoke(Plain("True")), Wait(1), Invoke(Plain("False"))>>, <<>>)

C8_Scenario ==
    /\ workflow.steps = SmokeTest
    /\ pc = "done"
    /\ \E e \in invoked : e.path = <<1>> /\ e.outcome \in {"ok", "ok_empty"}
    /\ \A e \in invoked : e.path = <<3>> => e.outcome \in Failure

\* C8 as claimed: the run returns True and the history has exactly 2 entries.
C8_ReturnsTrueWithTwoEntries ==
    C8_Scenario => (result = "True" /\ Len(workflow_history) = 2)

\* C8 as amended: the history has exactly 1 entry, that of the first Invoke; the
\* run returns True when that invocation printed some output and False when it
\* printed none.
C8_OneEntry ==
    C8_Scenario
    => /\ Len(workflow_history) = 1
       /\ EntriesOf(<<1>>) = {1}
       /\ result = "True" <=> [path |-> <<1>>, outcome |-> "ok"] \in invoked
       /\ result = "False" <=> [path |-> <<1>>, outcome |-> "ok_empty"] \in invoked

\* The scenario has run to its end: the first Invoke printed its output and
\* the optional third one failed.
C8_Witness ==
    /\ C8_Scenario
    /\ result = "True"
    /\ [path |-> <<3>>, outcome |-> "nonzero"] \in invoked

(***************************************************************************)
(* C9.  The run of a workflow whose only step is a required Invoke whose   *)
(* process cannot be started, from an empty history.                       *)
(***************************************************************************)
ErrorLines == {k \in 1..Len(log) : log[k].level = "ERROR"}

C9_Scenario ==
    /\ pc = "done"
    /\ Len(workflow.steps) = 1
    /\ workflow.steps[1].type = "claude_code"
    /\ workflow.steps[1].required # "False"
    /\ invoked = {[path |-> <<1>>, outcome |-> "launch"]}

\* C9 as claimed: False, no history entry, exactly one ERROR line.
C9_OneErrorLine ==
    C9_Scenario
    => (result = "False" /\ workflow_history = <<>> /\ Cardinality(ErrorLines) = 1)

\* C9 as amended: False, no history entry, exactly two ERROR lines: that of
\* run_claude_code for the exception, then that of execute_workflow for the
\* failed required step.
C9_TwoErrorLines ==
    C9_Scenario
    => /\ result = "False"
       /\ workflow_history = <<>>
       /\ Cardinality(ErrorLines) = 2
       /\ log = <<ERROR("Exception", 0), ERROR("Required step failed", 0)>>

C9_Witness == C9_Scenario /\ workflow.steps[1].required = "True"

(***************************************************************************)
(* C10.  A non-zero exit, a timeout and a launch failure are handled       *)
(* alike.  Each gives None with one ERROR line and no history entry; a     *)
(* failed Invoke step ends its activation with False when required and     *)
(* lets it go on when optional; a failed required task makes the Parallel  *)
(* step whose results came back end its activation with False; and a run   *)
(* ends with an exception only when a step it started is malformed (a tool *)
(* or think level that is no enum value, a string where a member is read,  *)
(* a condition that does not evaluate), never because an invocation failed.*)
(***************************************************************************)
Malformed(p) ==
    LET s == StepAt(workflow.steps, p) IN
    CASE s.type = "claude_code" ->
           \/ \E k \in 1..Len(s.tools) : s.tools[k].kind = "str" /\ s.tools[k].v \notin ClaudeToolValues
           \/ s.think_level.kind = "str" /\ s.think_level.v \notin ThinkLevelValues
      [] s.type = "parallel" ->
           \E j \in 1..Len(s.tasks) :
              \/ \E k \in 1..Len(s.tasks[j].tools) : s.tasks[j].tools[k].kind = "str"
              \/ s.tasks[j].think_level.kind = "str"
      [] s.type = "conditional" -> s.condition \notin {"absent", "True", "False"}
      [] OTHER -> FALSE

C10_FailuresHandledAlike ==
    /\ \A e \in invoked :
          e.outcome \in Failure
          => LET t == StepAt(workflow.steps, e.path)
                 r == RunClaudeCode(workflow_history, log, t.prompt, <<>>, NORMAL, e.outcome)
             IN /\ r.result = None
                /\ r.exc = ""
                /\ r.history = workflow_history
                /\ Len(r.log) = Len(log) + 1 /\ Last(r.log).level = "ERROR"
                /\ EntriesOf(e.path) = {}
                /\ IsStepPath(e.path) /\ t.required # "False" => AbortedAt(e.path)
                /\ IsStepPath(e.path) /\ t.required = "False" => WentOnBehind(e.path)
                /\ (/\ ~IsStepPath(e.path)
                    /\ t.required # "False"
                    /\ IsOver(Front(e.path))
                    /\ Len(results) = Len(StepAt(workflow.steps, Front(e.path)).tasks))
                   => AbortedAt(Front(e.path))
                /\ (pc = "gather" /\ ~IsStepPath(e.path))
                   => /\ threads[Last(e.path)].st = "done"
                      /\ threads[Last(e.path)].result = None
    /\ result \notin {"none", "True", "False"} => \E p \in started : Malformed(p)

\* A Parallel step with a task that timed out and a task that could not be
\* started is over, and the run ended with False.
C10_Witness ==
    /\ pc = "done"
    /\ result = "False"
    /\ \E e \in invoked, f \in invoked :
        /\ Front(e.path) = Front(f.path)
        /\ ~IsStepPath(e.path)
        /\ e.outcome = "timeout"
        /\ f.outcome = "launch"

(***************************************************************************)
(* C11.  A step or parallel task that names a tool that is no value of     *)
(* ClaudeTool never has the external tool invoked with that token, and a   *)
(* run that started such a step ends with True or False, not with an       *)
(* exception.                                                              *)
(***************************************************************************)
UnknownTool(tools) ==
    \E k \in 1..Len(tools) : tools[k].v \notin ClaudeToolValues

NamesUnknownTool(p) ==
    LET s == StepAt(workflow.steps, p) IN
    CASE s.type = "claude_code" -> UnknownTool(s.tools)
      [] s.type = "parallel" -> \E j \in 1..Len(s.tasks) : UnknownTool(s.tasks[j].tools)
      [] OTHER -> FALSE

C11_UnknownToolRejectedOrStripped ==
    /\ \A k \in 1..Len(workflow_history) :
          \A n \in 1..Len(workflow_history[k].tools) :
             workflow_history[k].tools[n] \in ClaudeToolValues
    /\ (pc = "done" /\ \E p \in started : NamesUnknownTool(p))
       => result \in {"True", "False"}

(***************************************************************************)
(* C12.  Steps run strictly one after the other: whenever a step has been  *)
(* started, the outcome of every step before it in its sequence is known   *)
(* (a parallel step has every task's invocation ended and is no longer     *)
(* gathering, a conditional step whose condition held has its nested       *)
(* activation returned and off the stack); every invocation belongs to a   *)
(* started step and every nested step to a started conditional step.       *)
(***************************************************************************)
IsPrefix(p, q) == Len(p) <= Len(q) /\ SubSeq(q, 1, Len(p)) = p

OutcomeKnown(p) ==
    LET s == StepAt(workflow.steps, p) IN
    /\ p \in started
    /\ IsOver(p)
    /\ \A k \in 1..Len(stack) : ~IsPrefix(p, stack[k].path)
    /\ s.type = "parallel" =>
          \A j \in 1..Len(s.tasks) : \E e \in invoked : e.path = p \o <<j>>
    /\ (s.type = "conditional" /\ s.condition = "True") =>
          (Returned(p, TRUE) \/ Returned(p, FALSE))

C12_StepsStrictlyInSequence ==
    /\ \A q \in started :
          /\ \A n \in 1..(Last(q) - 1) : OutcomeKnown(Front(q) \o <<n>>)
          /\ Len(q) > 1 => Front(q) \in started
    /\ \A e \in invoked :
          IF IsStepPath(e.path) THEN e.path \in started
          ELSE Front(e.path) \in started
    /\ pc = "gather" => CurPath \in started

\* A step was started behind a parallel step of two tasks, or behind a
\* conditional step whose nested steps ran.
C12_Witness ==
    \E q \in started :
        /\ Last(q) = 2
        /\ LET s == StepAt(workflow.steps, Front(q) \o <<1>>) IN
           \/ s.type = "parallel" /\ Len(s.tasks) = 2
           \/ s.type = "conditional" /\ s.condition = "True" /\ Len(s.steps) > 0

(***************************************************************************)
(* Runs whose every step is eventually taken: the interpreter goes on with *)
(* the loop, every subprocess and every sleep ends, and every thread       *)
(* handed to the executor gets to run.                                     *)
(***************************************************************************)
FairSpec == Spec /\ WF_vars(Next)

(***************************************************************************)
(* C13.  Every run that has begun eventually is over with True (completed) *)
(* or False (aborted), given that every invocation and every wait ends;    *)
(* and a run that is over stays over with the same result.                 *)
(***************************************************************************)
C13_RunEndsCompletedOrAborted ==
    /\ (pc \in {"running", "gather"}) ~> (pc = "done" /\ result \in {"True", "False"})
    /\ [][pc = "done" => (pc' = "done" /\ result' = result)]_vars

\* What the code does give: every run that has begun eventually is over, with
\* True, False or an exception, and stays so.
RunEnds ==
    /\ (pc \in {"running", "gather"}) ~> (pc = "done")
    /\ [][pc = "done" => (pc' = "done" /\ result' = result)]_vars

(***************************************************************************)
(* C14.  A run returns False only if the invocation of a required Invoke   *)
(* step or of a required parallel task failed (non-zero exit, timeout or   *)
(* launch error): when every required invocation exited with code 0, a     *)
(* run that returns a value returns True, whatever was printed.            *)
(***************************************************************************)
RequiredInvocationFailed ==
    \E e \in invoked :
        /\ e.outcome \in Failure
        /\ StepAt(workflow.steps, e.path).required # "False"

C14_FalseOnlyOnRequiredFailure ==
    (pc = "done" /\ result = "False") => RequiredInvocationFailed

(***************************************************************************)
(* C15, as claimed.  A step that failed leaves no entry in the history: an *)
(* Invoke step whose invocation failed has none, and a Parallel step with  *)
(* a required task whose invocation failed has none for any of its tasks,  *)
(* those that succeeded included; no more has a Wait step or a skipped     *)
(* Conditional step.                                                       *)
(***************************************************************************)
EntriesUnder(p) ==
    {k \in 1..Len(workflow_history) :
        \E q \in started \cup {e.path : e \in invoked} :
            IsPrefix(p, q) /\ WrittenBy(workflow_history[k], q)}

FailedStep(p) ==
    LET s == StepAt(workflow.steps, p) IN
    CASE s.type = "claude_code" ->
            \E e \in invoked : e.path = p /\ e.outcome \in Failure
      [] s.type = "parallel" ->
            /\ IsOver(p)
            /\ \E e \in invoked :
                  /\ Front(e.path) = p
                  /\ e.outcome \in Failure
                  /\ s.tasks[Last(e.path)].required # "False"
      [] OTHER -> FALSE

SkippedStep(p) ==
    LET s == StepAt(workflow.steps, p) IN
    s.type = "conditional" /\ s.condition \in {"absent", "False"}

C15_FailedStepLeavesHistoryUnchanged ==
    \A p \in started :
        (\/ StepAt(workflow.steps, p).type = "wait"
         \/ SkippedStep(p)
         \/ FailedStep(p))
        => EntriesUnder(p) = {}

(***************************************************************************)
(* C15, amended.  The history changes only in a step in which an           *)
(* invocation ends with exit code 0, and then by one entry appended for    *)
(* that invocation: a Wait step, a skipped Conditional step, a failed      *)
(* invocation and the fan-in of a Parallel step leave it as it is, so that *)
(* a Parallel step that aborts the run keeps the entries of its tasks that *)
(* succeeded.                                                              *)
(***************************************************************************)
C15_OnlySuccessfulInvocationsAddEntries ==
    [][/\ \A e \in invoked' \ invoked :
            IF e.outcome \in Failure
            THEN workflow_history' = workflow_history
            ELSE /\ Len(workflow_history') = Len(workflow_history) + 1
                 /\ Front(workflow_history') = workflow_history
                 /\ WrittenBy(Last(workflow_history'), e.path)
       /\ invoked' = invoked => workflow_history' = workflow_history
       /\ \A p \in started' \ started :
            StepAt(workflow'.steps, p).type \in {"wait", "conditional", "parallel"}
            => workflow_history' = workflow_history]_vars

\* A Parallel step has aborted the run on a required task that failed, and the
\* history holds the entry of a sibling task that succeeded.
C15_Witness ==
    \E p \in started :
        /\ StepAt(workflow.steps, p).type = "parallel"
        /\ FailedStep(p)
        /\ AbortedAt(p)
        /\ pc = "done"
        /\ \E e \in invoked :
              Front(e.path) = p /\ e.outcome = "ok" /\ EntriesOf(e.path) # {}

(***************************************************************************)
(* A session: one orchestrator on which execute_workflow, run_claude_code  *)
(* and save_history are called one after the other, as in lines 288-303.   *)
(***************************************************************************)
MaxCalls == 2      \* calls of execute_workflow and run_claude_code in a session

\* The caller has the control: nothing was called yet, or the last call ended.
BetweenCalls == pc \in {"idle", "done"}

\* The workflows run in a session: an optional Invoke step and a wait, a
\* Parallel step of two tasks, a Conditional step with a nested Invoke step,
\* and a Parallel step whose second task never gets to its subprocess.
SessionWorkflows ==
    {[name |-> <<"w">>, steps |-> Label(w, <<>>)] :
        w \in {<<Invoke(Plain("False")), Wait(1)>>,
               <<Parallel(<<Plain("absent"), Plain("False")>>)>>,
               <<Conditional("True", <<Invoke(Plain("absent"))>>)>>,
               <<Parallel(<<Plain("False"),
                            Task("absent", <<Str("Read")>>, Absent, <<>>)>>)>>}}

\* Lines 157-160: execute_workflow is called, on an orchestrator that may have
\* been used; the records of the call before are those of that call.
ExecuteWorkflowAgain ==
    /\ BetweenCalls
    /\ lifetime.calls < MaxCalls
    /\ \E w \in SessionWorkflows :
        /\ workflow' = w
        /\ stack' = <<Frame(w.steps, <<>>)>>
    /\ pc' = "running"
    /\ result' = "none"
    /\ threads' = <<>>
    /\ results' = <<>>
    /\ started' = {}
    /\ invoked' = {}
    /\ returned' = {}
    /\ lifetime' = Called(lifetime)
    /\ UNCHANGED <<workflow_history, log, files>>

\* Lines 296-300: run_claude_code is called by the user of the class, with
\* members of the enums; the call is over when the subprocess is.
DirectInvocation ==
    /\ BetweenCalls
    /\ lifetime.calls < MaxCalls
    /\ \E think_level \in {NORMAL, Member("think")}, o \in Outcomes(<<>>) :
        LET r == RunClaudeCode(workflow_history, log, <<"direct">>,
                               <<Member("LS"), Member("Read")>>, think_level, o)
        IN /\ workflow_history' = r.history
           /\ log' = r.log
           /\ lifetime' = Counted(Called(lifetime), o)
    /\ UNCHANGED <<files, workflow, stack, threads, results, pc, result,
                   started, invoked, returned>>

\* The default of the filename parameter, line 211.
HistoryFile == <<"workflow-history.json">>

\* The file system after open(filename, 'w') and json.dump, lines 214-215.
Dumped(fs, filename, doc) ==
    [f \in DOMAIN fs \cup {filename} |-> IF f = filename THEN doc ELSE fs[f]]

\* Mutant: the buffer is emptied once it is written out.
SaveHistoryAndClear ==
    /\ BetweenCalls
    /\ files' = Dumped(files, HistoryFile, workflow_history)
    /\ workflow_history' = <<>>
    /\ UNCHANGED <<log, workflow, stack, threads, results, pc, result,
                   started, invoked, returned, lifetime>>

\* Lines 211-217: save_history().
SaveHistory ==
    /\ BetweenCalls
    /\ files' = Dumped(files, HistoryFile, workflow_history)
    /\ UNCHANGED <<workflow_history, log, workflow, stack, threads, results, pc,
                   result, started, invoked, returned, lifetime>>

NextSession ==
    \/ ExecuteWorkflowAgain
    \/ DirectInvocation
    \/ SaveHistory
    \/ InvokeStep
    \/ WaitStep
    \/ ConditionalStep
    \/ WorkflowCompleted
    \/ ParallelStep
    \/ \E j \in 1..Len(threads) : TaskStart(j)
    \/ \E j \in 1..Len(threads) : TaskFinish(j)
    \/ Gather

SpecSession == Init /\ [][NextSession]_vars

(***************************************************************************)
(* C16.  On one orchestrator, through any sequence of execute_workflow and *)
(* run_claude_code calls, the history holds as many entries as             *)
(* subprocesses have exited with code 0, each marked successful; a step    *)
(* either leaves the history as it is or appends one entry to it; and the  *)
(* history file changes only in a step that changes nothing else and       *)
(* leaves in the file the history of that moment.                          *)
(***************************************************************************)
Saved(fs) == IF HistoryFile \in DOMAIN fs THEN fs[HistoryFile] ELSE <<>>

C16_OneEntryPerCompletedInvocation ==
    /\ [](/\ Len(workflow_history) = lifetime.completed
          /\ \A k \in 1..Len(workflow_history) : workflow_history[k].success)
    /\ [][/\ \/ workflow_history' = workflow_history
              \/ /\ Len(workflow_history') = Len(workflow_history) + 1
                 /\ Front(workflow_history') = workflow_history
                 /\ lifetime'.completed = lifetime.completed + 1
          /\ files' # files =>
                /\ Saved(files') = workflow_history
                /\ UNCHANGED <<workflow_history, log, workflow, stack, threads,
                               results, pc, result, started, invoked, returned,
                               lifetime>>]_vars

\* Two calls were made, one invocation at least failed and two succeeded, and
\* the history was saved before the last entry was appended.
C16_Witness ==
    /\ lifetime.calls = 2
    /\ Len(workflow_history) >= 2
    /\ \E k \in 1..Len(log) : log[k].msg \in {"Error", "Command timed out", "Exception"}
    /\ HistoryFile \in DOMAIN files
    /\ Len(Saved(files)) >= 1
    /\ Len(Saved(files)) < Len(workflow_history)

(***************************************************************************)
(* C17.  Once the results of a Parallel step are collected (every task's   *)
(* invocation has ended and the step is over), every task that is required *)
(* and whose invocation failed has its index reported in an ERROR line,    *)
(* "Required parallel task <index> failed".                                *)
(***************************************************************************)
Collected(p) ==
    /\ IsOver(p)
    /\ \A j \in 1..Len(StepAt(workflow.steps, p).tasks) :
          \E e \in invoked : e.path = p \o <<j>>

Reported(j) ==
    \E k \in 1..Len(log) : log[k] = ERROR("Required parallel task failed", j)

C17_EveryFailedRequiredIndexReported ==
    \A p \in started :
        (StepAt(workflow.steps, p).type = "parallel" /\ Collected(p))
        => \A e \in invoked :
              (/\ Front(e.path) = p
               /\ e.outcome \in Failure
               /\ StepAt(workflow.steps, e.path).required # "False")
              => Reported(Last(e.path))

(***************************************************************************)
(* C18.  A nested step is started only under a Conditional step whose      *)
(* condition is true.  A Conditional step whose condition is false or      *)
(* absent starts no nested step, no invocation and no nested activation,   *)
(* does not end its own activation, which goes on behind it, and the step  *)
(* that begins it changes neither the history nor the log.                 *)
(***************************************************************************)
C18_ConditionalRunsOnlyIfTrue ==
    /\ [](/\ \A q \in started :
                Len(q) > 1 =>
                   /\ Front(q) \in started
                   /\ StepAt(workflow.steps, Front(q)).type = "conditional"
                   /\ StepAt(workflow.steps, Front(q)).condition = "True"
          /\ \A p \in started :
                SkippedStep(p) =>
                   /\ \A q \in started : IsPrefix(p, q) => q = p
                   /\ \A e \in invoked : ~IsPrefix(p, e.path)
                   /\ ~Returned(p, TRUE) /\ ~Returned(p, FALSE)
                   /\ \A k \in 1..Len(stack) : ~IsPrefix(p, stack[k].path)
                   /\ ~AbortedAt(p)
                   /\ WentOnBehind(p))
    /\ [][\A p \in started' \ started :
            (LET s == StepAt(workflow'.steps, p) IN
             s.type = "conditional" /\ s.condition \in {"absent", "False"})
            => /\ workflow_history' = workflow_history
               /\ log' = log
               /\ pc' = "running"
               /\ stack' = NextIteration(stack)]_vars

\* A Conditional step with nested steps and the condition "False" was
\* skipped, and the step behind it was started.
C18_Witness ==
    \E p \in started :
        /\ StepAt(workflow.steps, p).type = "conditional"
        /\ StepAt(workflow.steps, p).condition = "False"
        /\ Len(StepAt(workflow.steps, p).steps) > 0
        /\ \E q \in started : Siblings(q, p) /\ Last(q) > Last(p)

(***************************************************************************)
(* C19.  A workflow of one Parallel step with the single task t ends as    *)
(* the workflow of the one Invoke step t ends when the subprocess ends the *)
(* same way: with the same return value (True, False, or an exception in   *)
(* both) and the same history.  What the Invoke step gives is computed     *)
(* from lines 168-178, and the runs of one Invoke step are held against it *)
(* as well.                                                                *)
(***************************************************************************)
AsInvokeStep(t, outcome) ==
    LET think == IF t.think_level = Absent THEN Str("") ELSE t.think_level IN
    IF \/ \E k \in 1..Len(t.tools) : LookupRaises(ClaudeToolValues, t.tools[k])
       \/ LookupRaises(ThinkLevelValues, think)
    THEN [value |-> "raises", history |-> <<>>, invokes |-> FALSE]
    ELSE LET r == RunClaudeCode(<<>>, <<>>, t.prompt,
                                [k \in 1..Len(t.tools) |-> Lookup(t.tools[k])],
                                Lookup(think), outcome)
         IN [value |-> IF ~Truthy(r.result) /\ Required(t) THEN "False" ELSE "True",
             history |-> r.history,
             invokes |-> TRUE]

ReturnValue == IF result \in {"True", "False"} THEN result ELSE "raises"

EndsAsInvokeStep(t, path) ==
    \E o \in Outcomes(t.timeout) :
        LET x == AsInvokeStep(t, o) IN
        /\ invoked = IF x.invokes THEN {[path |-> path, outcome |-> o]} ELSE {}
        /\ ReturnValue = x.value
        /\ workflow_history = x.history

C19_TaskHandledAsInvokeStep ==
    (pc = "done" /\ Len(workflow.steps) = 1) =>
        LET s == workflow.steps[1] IN
        /\ s.type = "claude_code" => EndsAsInvokeStep(s, <<1>>)
        /\ (s.type = "parallel" /\ Len(s.tasks) = 1)
              => EndsAsInvokeStep(s.tasks[1], <<1, 1>>)

(***************************************************************************)
(* C20, as claimed.  A call of create_workflow changes the file of an      *)
(* earlier workflow only if that workflow has the name given to the call;  *)
(* a file of a workflow of another name is left as it is.                  *)
(***************************************************************************)
Created == Last(log').arg

C20_OverwritesOnlySameName ==
    [][\A f \in DOMAIN files :
          /\ f \in DOMAIN files'
          /\ files'[f] # files[f] => files[f].name = Created]_vars

(***************************************************************************)
(* C20, amended.  A call of create_workflow changes the file of an earlier *)
(* workflow only if that workflow's name and the name given have the same  *)
(* key, i.e. are equal once upper case is folded to lower case and every   *)
(* space is replaced by "-"; the workflow created is then the one in that  *)
(* file, and no two files ever hold names of the same key.                 *)
(***************************************************************************)
Fold(c) == CASE c = "A" -> "a" [] c = " " -> "-" [] OTHER -> c

SameKey(n, m) ==
    Len(n) = Len(m) /\ \A k \in 1..Len(n) : Fold(n[k]) = Fold(m[k])

C20_OverwritesOnlySameKey ==
    /\ [](\A f, g \in DOMAIN files :
             SameKey(files[f].name, files[g].name) => f = g)
    /\ [][/\ \A f \in DOMAIN files :
               /\ f \in DOMAIN files'
               /\ files'[f] # files[f] => SameKey(files[f].name, Created)
          /\ \E f \in DOMAIN files' : files'[f].name = Created]_vars

\* Two workflows of different names were created and one file exists: that
\* of the second, which replaced the first.
C20_Witness ==
    /\ Len(log) = 2
    /\ log[1].arg # log[2].arg
    /\ Cardinality(DOMAIN files) = 1
    /\ \A f \in DOMAIN files : files[f].name = log[2].arg

====
